---- MODULE Spec2Model ----
(***************************************************************************)
(* State-machine model of XliffFileType.js: the loctool file type that     *)
(* aggregates new and pseudo-localized resources into one xliff file,      *)
(* writes it and, when the file's translation set is dirty, runs           *)
(* xcodebuild to import it.                                                *)
(*                                                                         *)
(* Paths are sequences of tokens: "/" and "." are the characters of that   *)
(* name, every other token is a run of ordinary characters ("en-US",       *)
(* "xliff", ...).  path.normalize only ever looks at "/" and "." so the    *)
(* token view loses nothing.                                               *)
(***************************************************************************)
EXTENDS Integers, Sequences, FiniteSets, TLC

\* ------------------------------------------------------------ bounds
NumRecords == 2
MaxPathLen == 5

Records == 1..NumRecords

\* ------------------------------------------------------------ helpers
Range(s) == {s[i] : i \in 1..Len(s)}

IsInjective(s) == \A i, j \in 1..Len(s) : s[i] = s[j] => i = j

\* all duplicate-free sequences over S: the contents a TranslationSet can have
SeqsNoDup(S) ==
    {s \in UNION {[1..n -> S] : n \in 0..Cardinality(S)} : IsInjective(s)}

IndexOf(s, x) == CHOOSE i \in 1..Len(s) : s[i] = x

Occurrences(s, x) == Cardinality({i \in 1..Len(s) : s[i] = x})

Last(s) == s[Len(s)]

Front(s) == SubSeq(s, 1, Len(s) - 1)

\* ------------------------------------------------------------ paths
Alphabet == {"/", ".", "en-US", "xliff", "fr-FR", "bak"}

AllPaths == UNION {[1..n -> Alphabet] : n \in 0..MaxPathLen}

\* the literal of line 59
CanonicalName == <<"en-US", ".", "xliff">>

\* this.extensions, line 41
Extensions == << <<".", "xliff">> >>

DotSeg == <<".">>
DotDotSeg == <<".", ".">>

\* the text between the separators, empty segments included
RECURSIVE Segments(_)
Segments(p) ==
    IF \A i \in 1..Len(p) : p[i] # "/"
    THEN <<p>>
    ELSE LET k == CHOOSE i \in 1..Len(p) :
                      p[i] = "/" /\ \A j \in 1..(i - 1) : p[j] # "/"
         IN <<SubSeq(p, 1, k - 1)>> \o Segments(SubSeq(p, k + 1, Len(p)))

\* normalizeString of node's path module: "" and "." segments vanish, ".."
\* removes the segment before it, or stays when there is none to remove and
\* the path is relative
RECURSIVE NormalizeSegments(_, _, _)
NormalizeSegments(segs, res, allowAboveRoot) ==
    IF segs = <<>> THEN res
    ELSE LET seg == Head(segs)
             rest == Tail(segs)
         IN IF seg = <<>> \/ seg = DotSeg
            THEN NormalizeSegments(rest, res, allowAboveRoot)
            ELSE IF seg = DotDotSeg
            THEN IF res # <<>> /\ Last(res) # DotDotSeg
                 THEN NormalizeSegments(rest, Front(res), allowAboveRoot)
                 ELSE IF allowAboveRoot
                 THEN NormalizeSegments(rest, Append(res, seg), allowAboveRoot)
                 ELSE NormalizeSegments(rest, res, allowAboveRoot)
            ELSE NormalizeSegments(rest, Append(res, seg), allowAboveRoot)

RECURSIVE Join(_)
Join(segs) ==
    IF segs = <<>> THEN <<>>
    ELSE IF Len(segs) = 1 THEN segs[1]
    ELSE segs[1] \o <<"/">> \o Join(Tail(segs))

\* path.normalize (posix)
Normalize(p) ==
    IF Len(p) = 0 THEN <<".">>
    ELSE LET isAbsolute == p[1] = "/"
             trailingSeparator == p[Len(p)] = "/"
             body == Join(NormalizeSegments(Segments(p), <<>>, ~isAbsolute))
         IN IF Len(body) = 0
            THEN IF isAbsolute THEN <<"/">>
                 ELSE IF trailingSeparator THEN <<".", "/">> ELSE <<".">>
            ELSE (IF isAbsolute THEN <<"/">> ELSE <<>>)
                 \o body
                 \o (IF trailingSeparator THEN <<"/">> ELSE <<>>)

EndsWith(p, suffix) ==
    /\ Len(p) >= Len(suffix)
    /\ SubSeq(p, Len(p) - Len(suffix) + 1, Len(p)) = suffix

\* the commented-out extensionRE.test(pathName) of line 58
HandlesByExtension(pathName) == \E i \in 1..Len(Extensions) : EndsWith(pathName, Extensions[i])

HandlesVerbatim(pathName) == pathName = CanonicalName

\* the value handles() computes, line 59
HandlesPath(pathName) == Normalize(pathName) = CanonicalName


\* ------------------------------------------------------------ collaborators
\* TranslationSet: records in insertion order, one entry per resource key
\* (a record of this model is its key).  add() of a key already present
\* appends nothing.
SetAdd(set, res) == IF res \in Range(set) THEN set ELSE Append(set, res)

RECURSIVE SetAddSet(_, _)
SetAddSet(set, other) ==
    IF other = <<>> THEN set
    ELSE SetAddSet(SetAdd(set, Head(other)), Tail(other))

GetAll(set) == set

\* XliffFile: id 0 is "no object" (this.file undefined)
NoFile == [id |-> 0, pathName |-> <<>>, ts |-> <<>>, dirty |-> FALSE]

XliffFile(id, pathName) == [id |-> id, pathName |-> pathName, ts |-> <<>>, dirty |-> FALSE]

\* XliffFile.addResource: adds to the file's translation set, which turns
\* dirty when the add changed it
AddResource(f, res) ==
    [f EXCEPT !.ts = SetAdd(@, res), !.dirty = @ \/ res \notin Range(f.ts)]

RECURSIVE AddResources(_, _)
AddResources(f, resources) ==
    IF resources = <<>> THEN f
    ELSE AddResources(AddResource(f, Head(resources)), Tail(resources))

\* XliffFile.write: the persist either fails with an error or returns; when
\* it returns it has either cleared the set's dirty flag or left it alone
PersistErrors == {"EIO", "ENOSPC"}
PersistOutcomes == {"clean", "keep"} \cup PersistErrors

FileWrite(f, outcome) == IF outcome = "clean" THEN [f EXCEPT !.dirty = FALSE] ELSE f

IsDirty(f) == f.dirty

\* spawnSync(...).status: 0, a failure code, or null when the process was
\* killed or could not be started
ExitStatuses == {"0", "1", "null"}

\* ------------------------------------------------------------ state
VARIABLES
    file,        \* this.file
    newres,      \* this.newres
    pseudo,      \* this.pseudo
    extracted,   \* this.extracted
    ret,         \* the global variable `ret` that handles() assigns
    pc,          \* "idle", or "spawnSync" while write() waits for xcodebuild
    constructed, \* number of XliffFile objects constructed so far
    passed,      \* records ever passed to this.file.addResource
    noted,       \* what write() found: the records waiting when it last found no
                 \* file, and the file's set as the latest write() with a file found it
    call         \* the latest call: operation, argument, outcome, what it did

vars == <<file, newres, pseudo, extracted, ret, pc, constructed, passed, noted, call>>

Undefined == [defined |-> FALSE, value |-> FALSE]
Value(v) == [defined |-> TRUE, value |-> v]

\* one entry of call.trace: what write() did, in order
Ev(name, res) == [ev |-> name, res |-> res]

AddEvents(resources) == [i \in 1..Len(resources) |-> Ev("addResource", resources[i])]

Call(op, arg, kind, val) ==
    [op |-> op, arg |-> arg, kind |-> kind, val |-> val,
     trace |-> <<>>, status |-> "none", warned |-> FALSE]

\* paths the host framework asks about and creates files for
SamplePaths == {CanonicalName, <<".", "/">> \o CanonicalName, <<"fr-FR", ".", "xliff">>}

\* the sets the host framework hands to addSet
RecordSets == SeqsNoDup(Records)

NewFilePaths == {CanonicalName, <<"fr-FR", ".", "xliff">>}

Init ==
    /\ file = NoFile
    /\ newres = <<>>
    /\ pseudo = <<>>
    /\ extracted = <<>>
    /\ ret = Undefined
    /\ pc = "idle"
    /\ constructed = 0
    /\ passed = {}
    /\ noted = [skipped |-> {}, found |-> <<>>]
    /\ call = Call("new", <<>>, "return", 0)

\* ------------------------------------------------------------ handles
Handles(pathName) ==
    /\ pc = "idle"
    /\ ret' = Value(HandlesPath(pathName))
    /\ call' = Call("handles", pathName, "return", ret'.value)
    /\ UNCHANGED <<file, newres, pseudo, extracted, pc, constructed, passed, noted>>

\* ------------------------------------------------------------ write
\* if (this.file)
HasFileAlways(f) == TRUE

HasFile(f) == f.id # 0

\* the records write() adds, in the order it adds them (lines 80-96)
ResourcesNewExtracted == GetAll(newres) \o GetAll(extracted)

ResourcesNotYetPassed ==
    SelectSeq(GetAll(newres) \o GetAll(pseudo), LAMBDA r : r \notin passed)

ResourcesPseudoFirst == GetAll(pseudo) \o GetAll(newres)

ResourcesToAdd == GetAll(newres) \o GetAll(pseudo)

\* if (this.file.getTranslationSet().isDirty())
ShouldImportAlways(f) == TRUE

ShouldImport(f) == IsDirty(f)

\* write() reads the new and pseudo sets with getAll() and leaves them as
\* they are (lines 80 and 90)
ClearedByWrite(set) == <<>>

KeptByWrite(set) == set

\* this.file.write() threw after the addResource loops: write() has no
\* handler that would undo them
RolledBack(before, merged) == before

FileAfterFailedPersist(before, merged) == merged

\* var args = [...], line 106: each argument as the tokens of its text
ImporterArgsForFile(f) ==
    << <<"-importLocalizations">>, <<"-localizationPath">>, f.pathName,
       <<"-project">>, <<"feelgood", ".", "xcodeproj">> >>

ImporterArgs(f) ==
    << <<"-importLocalizations">>, <<"-localizationPath">>, <<".", "/", "en", ".", "xliff">>,
       <<"-project">>, <<"feelgood", ".", "xcodeproj">> >>

\* spawnSync, line 107: write() waits in it until xcodebuild has exited
SpawnAsync == [pc |-> "spawnSync", kind |-> "return"]

SpawnSync == [pc |-> "spawnSync", kind |-> "pending"]

\* this.file.write() threw: nothing catches it
PersistFailureSwallowed(err) == [kind |-> "return", val |-> "undefined"]

PersistFailure(err) == [kind |-> "throw", val |-> err]

\* what write() does once spawnSync has returned (lines 108-114)
AfterSpawnThrow(status) ==
    IF status # "0" THEN [kind |-> "throw", val |-> "Execution failed", warned |-> FALSE]
    ELSE [kind |-> "return", val |-> "undefined", warned |-> FALSE]

AfterSpawn(status) == [kind |-> "return", val |-> "undefined", warned |-> status # "0"]

WriteBody ==
    /\ pc = "idle"
    /\ newres' = KeptByWrite(newres)
    /\ pseudo' = KeptByWrite(pseudo)
    /\ IF ~HasFile(file)
       THEN /\ call' = Call("write", <<>>, "return", "undefined")
            /\ UNCHANGED <<file, pc, passed>>
       ELSE \E outcome \in PersistOutcomes :
            LET resources == ResourcesToAdd
                merged == AddResources(file, resources)
                adds == AddEvents(resources)
            IN /\ passed' = passed \cup Range(resources)
               /\ IF outcome \in PersistErrors
                  THEN /\ file' = FileAfterFailedPersist(file, merged)
                       /\ pc' = "idle"
                       /\ call' = [Call("write", <<>>, PersistFailure(outcome).kind,
                                        PersistFailure(outcome).val)
                                      EXCEPT !.trace = adds \o <<Ev("persist", 0)>>,
                                             !.status = outcome]
                  ELSE LET written == FileWrite(merged, outcome)
                           checked == adds \o <<Ev("persist", 0), Ev("isDirty", 0)>>
                       IN /\ file' = written
                          /\ IF ShouldImport(written)
                             THEN /\ pc' = SpawnSync.pc
                                  /\ call' = [Call("write", <<>>, SpawnSync.kind, "undefined")
                                                 EXCEPT !.trace = checked \o
                                                     <<Ev("spawnSync", ImporterArgs(written))>>]
                             ELSE /\ pc' = "idle"
                                  /\ call' = [Call("write", <<>>, "return", "undefined")
                                                 EXCEPT !.trace = checked]
    /\ UNCHANGED <<extracted, ret, constructed>>

Write == WriteBody /\ UNCHANGED noted

\* write(), with a note of what the new and pseudo sets held when it found
\* no file
WriteObserved ==
    /\ WriteBody
    /\ noted' = IF file.id = 0
                THEN [noted EXCEPT !.skipped = Range(newres) \cup Range(pseudo)]
                ELSE [noted EXCEPT !.found = file.ts]

\* xcodebuild exits and write() runs to its end
ImporterExit(status) ==
    /\ pc = "spawnSync"
    /\ pc' = "idle"
    /\ call' = [call EXCEPT !.kind = AfterSpawn(status).kind,
                            !.val = AfterSpawn(status).val,
                            !.warned = AfterSpawn(status).warned,
                            !.status = status,
                            !.trace = @ \o <<Ev("exit", 0)>>]
    /\ UNCHANGED <<file, newres, pseudo, extracted, ret, constructed, passed, noted>>

\* ------------------------------------------------------------ newFile
NewFileAlways(f, pathName, id) == XliffFile(id, pathName)

\* if (!this.file) { this.file = new XliffFile({...}) }
NewFileObject(f, pathName, id) == IF ~(f.id # 0) THEN XliffFile(id, pathName) ELSE f

NewFile(pathName) ==
    /\ pc = "idle"
    /\ file' = NewFileObject(file, pathName, constructed + 1)
    /\ constructed' = IF file'.id = constructed + 1 THEN constructed + 1 ELSE constructed
    /\ call' = Call("newFile", pathName, "return", file'.id)
    /\ UNCHANGED <<newres, pseudo, extracted, ret, pc, passed, noted>>

\* return this.file
NoResourceFile(f) == 0

ResourceFile(f) == f.id

GetResourceFile ==
    /\ pc = "idle"
    /\ call' = Call("getResourceFile", <<>>, "return", ResourceFile(file))
    /\ UNCHANGED <<file, newres, pseudo, extracted, ret, pc, constructed, passed, noted>>

\* ------------------------------------------------------------ accessors
GetExtensions ==
    /\ pc = "idle"
    /\ call' = Call("getExtensions", <<>>, "return", Extensions)
    /\ UNCHANGED <<file, newres, pseudo, extracted, ret, pc, constructed, passed, noted>>

GetExtracted ==
    /\ pc = "idle"
    /\ call' = Call("getExtracted", <<>>, "return", "extracted")
    /\ UNCHANGED <<file, newres, pseudo, extracted, ret, pc, constructed, passed, noted>>

GetNew ==
    /\ pc = "idle"
    /\ call' = Call("getNew", <<>>, "return", "newres")
    /\ UNCHANGED <<file, newres, pseudo, extracted, ret, pc, constructed, passed, noted>>

GetPseudo ==
    /\ pc = "idle"
    /\ call' = Call("getPseudo", <<>>, "return", "pseudo")
    /\ UNCHANGED <<file, newres, pseudo, extracted, ret, pc, constructed, passed, noted>>

\* this.extracted.addSet(set)
ReplacedBySet(ext, set) == set

AddedToExtracted(ext, set) == SetAddSet(ext, set)

AddSet(set) ==
    /\ pc = "idle"
    /\ extracted' = AddedToExtracted(extracted, set)
    /\ call' = Call("addSet", <<>>, "return", "undefined")
    /\ UNCHANGED <<file, newres, pseudo, ret, pc, constructed, passed, noted>>

\* the host adding a record to a set it got from an accessor
AddToNew(res) ==
    /\ pc = "idle"
    /\ newres' = SetAdd(newres, res)
    /\ call' = Call("getNew().add", <<>>, "return", "undefined")
    /\ UNCHANGED <<file, pseudo, extracted, ret, pc, constructed, passed, noted>>

AddToPseudo(res) ==
    /\ pc = "idle"
    /\ pseudo' = SetAdd(pseudo, res)
    /\ call' = Call("getPseudo().add", <<>>, "return", "undefined")
    /\ UNCHANGED <<file, newres, extracted, ret, pc, constructed, passed, noted>>

AddToExtracted(res) ==
    /\ pc = "idle"
    /\ extracted' = SetAdd(extracted, res)
    /\ call' = Call("getExtracted().add", <<>>, "return", "undefined")
    /\ UNCHANGED <<file, newres, pseudo, ret, pc, constructed, passed, noted>>

\* ------------------------------------------------------------ specifications
Next ==
    \/ \E p \in SamplePaths : Handles(p)
    \/ Write
    \/ \E status \in ExitStatuses : ImporterExit(status)
    \/ \E p \in NewFilePaths : NewFile(p)
    \/ GetResourceFile
    \/ GetExtensions
    \/ GetExtracted
    \/ GetNew
    \/ GetPseudo
    \/ \E set \in RecordSets : AddSet(set)
    \/ \E res \in Records : AddToNew(res)
    \/ \E res \in Records : AddToPseudo(res)
    \/ \E res \in Records : AddToExtracted(res)

Spec == Init /\ [][Next]_vars

\* the calls that change what write() reads or does, and write() itself
NextWrite ==
    \/ Write
    \/ \E status \in ExitStatuses : ImporterExit(status)
    \/ \E p \in NewFilePaths : NewFile(p)
    \/ \E set \in RecordSets : AddSet(set)
    \/ \E res \in Records : AddToNew(res)
    \/ \E res \in Records : AddToPseudo(res)
    \/ \E res \in Records : AddToExtracted(res)

SpecWrite == Init /\ [][NextWrite]_vars

\* write() before and after newFile, with the records that reach the new
\* and pseudo sets in between
NextLate ==
    \/ WriteObserved
    \/ \E status \in ExitStatuses : ImporterExit(status)
    \/ \E p \in NewFilePaths : NewFile(p)
    \/ \E res \in Records : AddToNew(res)
    \/ \E res \in Records : AddToPseudo(res)

SpecLate == Init /\ [][NextLate]_vars

\* the same, when xcodebuild always exits in the end
SpecLateFair == SpecLate /\ WF_vars(\E status \in ExitStatuses : ImporterExit(status))

\* the calls that make, fill and read the file
NextFile ==
    \/ NextLate
    \/ GetResourceFile

SpecFile == Init /\ [][NextFile]_vars

\* handles() as the first call on a new instance, for every path of up to
\* MaxPathLen tokens
NextPath == call.op = "new" /\ \E p \in AllPaths : Handles(p)

SpecPath == Init /\ [][NextPath]_vars


\* ------------------------------------------------------------ properties
\* how often write() did `name` in the latest call
Count(trace, name) == Cardinality({i \in 1..Len(trace) : trace[i].ev = name})

\* the persist of the latest call returned normally
PersistReturned ==
    /\ call.op = "write"
    /\ Count(call.trace, "persist") = 1
    /\ call.status \notin PersistErrors

\* a step that enters write()
WriteStep == pc = "idle" /\ call'.op = "write"

\* C1: a write() whose persist returned invokes the importer once when the
\* file's translation set is dirty right after the persist and not at all
\* when it is clean; no other call, and no write() without a file or with a
\* failed persist, invokes it.  (Nothing touches the file between the persist
\* and the end of the call, so file.dirty is the flag the check read.)
C1_ImportIffDirty ==
    Count(call.trace, "spawnSync") = (IF PersistReturned /\ file.dirty THEN 1 ELSE 0)

C1_Witness ==
    /\ PersistReturned
    /\ file.dirty
    /\ Count(call.trace, "spawnSync") = 1
    /\ pc = "idle"

\* the records of s come in t in the order they have in s
InOrder(s, t) ==
    \A i, j \in 1..Len(s) : i < j => IndexOf(t, s[i]) < IndexOf(t, s[j])

\* the pseudo-set records that are not in the new set as well
PseudoOnly == SelectSeq(pseudo, LAMBDA r : r \notin Range(newres))

\* C2 as claimed: after the first write() into a file, every record of the
\* new and pseudo sets is in the file's set once, each set's records in the
\* order they were added, every new-set record before every other pseudo-set
\* record.
C2_Original ==
    [][(WriteStep /\ file.id # 0 /\ file.ts = <<>>) =>
          /\ \A r \in Range(newres) \cup Range(pseudo) : Occurrences(file'.ts, r) = 1
          /\ InOrder(newres, file'.ts)
          /\ InOrder(pseudo, file'.ts)
          /\ \A a \in Range(newres) : \A b \in Range(pseudo) :
                 a # b => IndexOf(file'.ts, a) < IndexOf(file'.ts, b)]_vars

\* C2 amended: a record that is in both sets takes its place from the new
\* set; the order within the pseudo set and "new before pseudo" hold for the
\* pseudo-set records that are not also in the new set.
C2_Amended ==
    [][(WriteStep /\ file.id # 0 /\ file.ts = <<>>) =>
          /\ \A r \in Range(newres) \cup Range(pseudo) : Occurrences(file'.ts, r) = 1
          /\ Len(file'.ts) = Cardinality(Range(newres) \cup Range(pseudo))
          /\ InOrder(newres, file'.ts)
          /\ InOrder(PseudoOnly, file'.ts)
          /\ \A a \in Range(newres) : \A b \in Range(PseudoOnly) :
                 IndexOf(file'.ts, a) < IndexOf(file'.ts, b)]_vars

C2_Witness ==
    /\ call.op = "write"
    /\ Count(call.trace, "addResource") = 3
    /\ \E a, b \in Records :
          /\ a # b
          /\ newres = <<a>>
          /\ pseudo = <<b, a>>
          /\ file.ts = <<a, b>>

\* the records that are in the extracted set and in neither other set
ExtractedOnly == Range(extracted) \ (Range(newres) \cup Range(pseudo))

\* C3: a record that is in the extracted set only has never been passed to
\* addResource and is not in the file's set, however many write() calls
\* there were.

C3_ExtractedNotWritten ==
    \A r \in ExtractedOnly : r \notin passed /\ r \notin Range(file.ts)

C3_Witness ==
    /\ call.op = "write"
    /\ Count(call.trace, "addResource") >= 1
    /\ ExtractedOnly # {}
    /\ file.ts # <<>>

\* C4: at most one XliffFile is ever constructed; the first newFile(pathA)
\* binds it to pathA; once it exists every step keeps the same object with
\* the same path, and newFile returns it whatever path it is given.
C4_SingleFile ==
    [][/\ constructed' <= 1
       /\ file.id # 0 => (file'.id = file.id /\ file'.pathName = file.pathName)
       /\ (pc = "idle" /\ call'.op = "newFile") =>
             /\ call'.val = file'.id
             /\ file'.id # 0
             /\ file.id = 0 => file'.pathName = call'.arg]_vars

C4_Witness ==
    /\ constructed = 1
    /\ call.op = "newFile"
    /\ call.val = file.id
    /\ call.arg # file.pathName
    /\ file.ts # <<>>

\* C5: write() with no file adds nothing, persists nothing, starts no
\* importer, returns normally and leaves the file absent.
C5_WriteWithoutFile ==
    [][(WriteStep /\ file.id = 0) =>
          /\ call'.trace = <<>>
          /\ call'.kind = "return"
          /\ file' = NoFile
          /\ pc' = "idle"
          /\ UNCHANGED <<newres, pseudo, extracted, passed, constructed>>]_vars

C5_Witness ==
    /\ call.op = "write"
    /\ file = NoFile
    /\ newres # <<>>
    /\ pseudo # <<>>

\* C6: when the importer ends with a status other than 0, write() returns
\* normally, having started the importer once and persisted once, and the
\* file's set keeps its records.
C6_ImportFailureSwallowed ==
    [][(pc = "spawnSync" /\ pc' = "idle" /\ call'.status # "0") =>
          /\ call'.kind = "return"
          /\ Count(call'.trace, "spawnSync") = 1
          /\ Count(call'.trace, "persist") = 1
          /\ file'.ts = file.ts
          /\ passed' = passed]_vars

C6_Witness ==
    /\ call.op = "write"
    /\ pc = "idle"
    /\ call.status = "1"
    /\ call.kind = "return"
    /\ call.warned
    /\ file.ts # <<>>

\* C7: when the persist fails, write() ends by throwing that same error: it
\* is not turned into a normal return, another error or a warning.
C7_PersistFailurePropagates ==
    (call.op = "write" /\ call.status \in PersistErrors) =>
        /\ call.kind = "throw"
        /\ call.val = call.status
        /\ ~call.warned

C7_Witness ==
    /\ call.op = "write"
    /\ call.status = "EIO"
    /\ call.kind = "throw"
    /\ Count(call.trace, "persist") = 1

InsertAt(p, i, s) == SubSeq(p, 1, i) \o s \o SubSeq(p, i + 1, Len(p))

\* p with an extra "." segment
DotSegmentVariants(p) ==
    {InsertAt(p, i, <<".", "/">>) :
        i \in {k \in 0..Len(p) : \/ k = 0 /\ Len(p) > 0 /\ p[1] # "/"
                                 \/ k > 0 /\ p[k] = "/"}}
    \cup (IF Len(p) > 0 /\ p[Len(p)] # "/" THEN {p \o <<"/", ".">>} ELSE {})

\* p with one of its slashes repeated
RepeatedSlashVariants(p) ==
    {InsertAt(p, i, <<"/">>) : i \in {k \in 1..Len(p) : p[k] = "/"}}

\* p with slashes added at its end
TrailingSlashVariants(p) == {p \o <<"/">>, p \o <<"/", "/">>}

\* C9 as claimed: a path with extra trailing slashes or "." segments gets the
\* same answer from handles as the path without them (as it would if the two
\* normalized identically); handles("en-US.xliff/") = handles("en-US.xliff").
C9_Original ==
    call.op = "handles" =>
        \A q \in DotSegmentVariants(call.arg) \cup RepeatedSlashVariants(call.arg)
                    \cup TrailingSlashVariants(call.arg) :
            HandlesPath(q) = call.val

\* C9 amended: extra "." segments and repeated slashes (also at the end) make
\* no difference, but normalization keeps one trailing slash, so a path that
\* ends in a slash is not the same as the path without it:
\* handles("en-US.xliff/") is false and handles("en-US.xliff") is true.
C9_Amended ==
    call.op = "handles" =>
        /\ \A q \in DotSegmentVariants(call.arg) \cup RepeatedSlashVariants(call.arg) :
               Normalize(q) = Normalize(call.arg) /\ HandlesPath(q) = call.val
        /\ (Len(call.arg) > 0 /\ call.arg[Len(call.arg)] = "/") => ~call.val
        /\ call.arg = <<"en-US", ".", "xliff", "/">> => ~call.val
        /\ call.arg = <<"en-US", ".", "xliff">> => call.val

C9_Witness ==
    /\ call.op = "handles"
    /\ call.arg = <<"en-US", ".", "xliff">>
    /\ call.val
    /\ <<".", "/", "en-US", ".", "xliff">> \in DotSegmentVariants(call.arg)
    /\ ~HandlesPath(<<"en-US", ".", "xliff", "/">>)

\* C10 as claimed: handles() changes nothing that outlives the call: not the file,
\* not the three sets, not any other variable.
C10_HandlesChangesNothing ==
    [][call'.op = "handles" =>
          UNCHANGED <<file, newres, pseudo, extracted, ret, pc, constructed, passed>>]_vars

IsPrefix(s, t) == Len(s) <= Len(t) /\ SubSeq(t, 1, Len(s)) = s

\* C12: no step removes a record from the new, pseudo or extracted set or
\* empties one of them: each set after a step begins with the set before it;
\* a step of write() leaves all three exactly as they were.
C12_SetsOnlyGrow ==
    [][/\ IsPrefix(newres, newres')
       /\ IsPrefix(pseudo, pseudo')
       /\ IsPrefix(extracted, extracted')
       /\ call'.op = "write" => UNCHANGED <<newres, pseudo, extracted>>]_vars

C12_Witness ==
    /\ call.op = "write"
    /\ file.id # 0
    /\ Count(call.trace, "addResource") >= 2
    /\ newres # <<>>
    /\ pseudo # <<>>
    /\ Len(extracted) >= 2

\* how often the trace passes record r to addResource
AddsOf(trace, r) ==
    Cardinality({i \in 1..Len(trace) : trace[i].ev = "addResource" /\ trace[i].res = r})

\* C13: a write() with a file calls addResource once for every record of
\* the new set and once for every record of the pseudo set, |new| + |pseudo|
\* calls, also for records that earlier write() calls have added already.
C13_AddsPerWrite ==
    [][(WriteStep /\ file.id # 0) =>
          /\ Count(call'.trace, "addResource") = Len(newres) + Len(pseudo)
          /\ \A r \in Records :
                AddsOf(call'.trace, r) =
                    (IF r \in Range(newres) THEN 1 ELSE 0)
                    + (IF r \in Range(pseudo) THEN 1 ELSE 0)]_vars

C13_Witness ==
    /\ call.op = "write"
    /\ noted.found # <<>>
    /\ newres # <<>>
    /\ pseudo # <<>>
    /\ Range(newres) \cup Range(pseudo) \subseteq Range(noted.found)
    /\ Count(call.trace, "addResource") = Len(newres) + Len(pseudo)

\* the place of a step in write()
Rank(ev) ==
    CASE ev = "addResource" -> 1
      [] ev = "persist" -> 2
      [] ev = "isDirty" -> 3
      [] ev = "spawnSync" -> 4
      [] ev = "exit" -> 5

\* C14: the steps of one write() come in this order: the addResource calls
\* for the new set, those for the pseudo set, one persist, the dirty check,
\* the start of the importer, its exit; none comes twice or out of place,
\* and there is no dirty check or importer without a persist before it.
C14_StepOrder ==
    call.op = "write" =>
        LET t == call.trace
            n == Count(t, "addResource")
        IN /\ \A i, j \in 1..Len(t) : i < j => Rank(t[i].ev) <= Rank(t[j].ev)
           /\ \A name \in {"persist", "isDirty", "spawnSync", "exit"} : Count(t, name) <= 1
           /\ Count(t, "exit") <= Count(t, "spawnSync")
           /\ Count(t, "spawnSync") <= Count(t, "isDirty")
           /\ Count(t, "isDirty") <= Count(t, "persist")
           /\ t # <<>> =>
                 /\ n = Len(newres) + Len(pseudo)
                 /\ Count(t, "persist") = 1
                 /\ \A i \in 1..Len(newres) : t[i].res = newres[i]
                 /\ \A i \in 1..Len(pseudo) : t[Len(newres) + i].res = pseudo[i]
           /\ pc = "spawnSync" => (Count(t, "spawnSync") = 1 /\ Count(t, "exit") = 0)

C14_Witness ==
    /\ call.op = "write"
    /\ pc = "idle"
    /\ newres # <<>>
    /\ pseudo # <<>>
    /\ newres # pseudo
    /\ Count(call.trace, "exit") = 1
    /\ Len(call.trace) = Len(newres) + Len(pseudo) + 4

\* C15: write() waits for the importer: while xcodebuild runs the call is
\* pending, the only step there is from there is the importer's exit (no
\* timeout, no cancellation), a write() that started the importer has
\* returned only when the exit is in its trace, and once the importer has
\* exited, as once the persist has returned without an import, the call
\* has ended.
C15_Synchronous ==
    /\ [][/\ WriteStep => /\ (call'.kind = "pending") <=> (pc' = "spawnSync")
                          /\ (pc' = "spawnSync") <=> (Count(call'.trace, "spawnSync") = 1)
          /\ pc = "spawnSync" =>
                /\ call.kind = "pending"
                /\ call'.op = "write"
                /\ pc' = "idle"
                /\ Count(call'.trace, "exit") = 1
                /\ call'.kind # "pending"
          /\ (call'.op = "write" /\ call'.kind # "pending"
                 /\ Count(call'.trace, "spawnSync") = 1) =>
                Count(call'.trace, "exit") = 1]_vars
    /\ (pc = "spawnSync") ~> (pc = "idle" /\ call.op = "write" /\ call.kind = "return")

C15_Witness ==
    /\ call.op = "write"
    /\ pc = "spawnSync"
    /\ call.kind = "pending"
    /\ Count(call.trace, "spawnSync") = 1
    /\ Count(call.trace, "exit") = 0

\* C16: whenever write() starts the importer, the arguments are
\* -importLocalizations -localizationPath ./en.xliff -project
\* feelgood.xcodeproj, whatever path the file was created with and whatever
\* records were merged.
C16_FixedArguments ==
    \A i \in 1..Len(call.trace) :
        call.trace[i].ev = "spawnSync" =>
            call.trace[i].res =
                << <<"-importLocalizations">>, <<"-localizationPath">>,
                   <<".", "/", "en", ".", "xliff">>,
                   <<"-project">>, <<"feelgood", ".", "xcodeproj">> >>

C16_Witness ==
    /\ call.op = "write"
    /\ Count(call.trace, "spawnSync") = 1
    /\ file.pathName = <<"en-US", ".", "xliff">>
    /\ Len(file.ts) >= 2

\* C17: when the persist fails, that write() starts no importer, the file's
\* set holds every record of the new and pseudo sets and everything it held
\* before (nothing is rolled back), and the new and pseudo sets are as they
\* were.
C17_FailedPersist ==
    [][(WriteStep /\ file.id # 0 /\ call'.status \in {"EIO", "ENOSPC"}) =>
          /\ Count(call'.trace, "spawnSync") = 0
          /\ pc' = "idle"
          /\ Range(newres) \cup Range(pseudo) \subseteq Range(file'.ts)
          /\ IsPrefix(file.ts, file'.ts)
          /\ file'.id = file.id
          /\ UNCHANGED <<newres, pseudo>>]_vars

C17_Witness ==
    /\ call.op = "write"
    /\ call.status = "ENOSPC"
    /\ noted.found = <<>>
    /\ Len(file.ts) >= 2
    /\ Range(file.ts) = Range(newres) \cup Range(pseudo)

\* C18: a write() with a file merges every record of the new and pseudo
\* sets, those included that were already waiting when an earlier write()
\* found no file and did nothing.
C18_NothingLost ==
    [][(WriteStep /\ file.id # 0) =>
          /\ noted.skipped \subseteq Range(file'.ts)
          /\ noted.skipped \subseteq passed'
          /\ Range(newres) \cup Range(pseudo) \subseteq Range(file'.ts)]_vars

C18_Witness ==
    /\ call.op = "write"
    /\ file.id # 0
    /\ noted.skipped # {}
    /\ noted.found = <<>>
    /\ noted.skipped \subseteq Range(file.ts)
    /\ \E r \in Range(file.ts) : r \notin noted.skipped

====
